---- MODULE Spec2Model ----
(***************************************************************************)
(* FocusFlow: the goal/task store, the session ledger, the daily logs and  *)
(* the focus timer, modelled from src/App.tsx, src/services/storage.ts and *)
(* the Timer / GoalTree components.                                        *)
(*                                                                         *)
(* JavaScript objects are records; an optional field that is undefined is  *)
(* a key that is absent from the record, and the spread {...a, ...b} is    *)
(* the override b @@ a.  crypto.randomUUID()/uuidv4() return the value of  *)
(* the counter nextId, which never repeats.  The program is event driven   *)
(* and single threaded: every handler runs at its own instant, and         *)
(* Date.now() inside the handler is that instant (now').                   *)
(***************************************************************************)
EXTENDS Integers, Sequences, FiniteSets, TLC

VARIABLES
    goals,          \* App.tsx:13  useState<Goal[]>
    sessions,       \* App.tsx:14  useState<FocusSession[]> (the ledger)
    logs,           \* App.tsx:15  useState<DailyLog[]>
    activeTab,      \* App.tsx:30
    timerTaskId,    \* App.tsx:33
    timerSubtaskId, \* App.tsx:34
    timeLeft,       \* Timer: useState(25 * 60)
    initialTime,    \* Timer: useState(25 * 60)
    isActive,       \* Timer: useState(false)
    now,            \* the instant of the latest event (Date.now())
    nextId,         \* the next value randomUUID()/uuidv4() returns
    stored,         \* storage.ts: localStorage under the three keys
    effects         \* App.tsx:36-60: the effects and the render still to run

storeVars == <<goals, sessions, logs>>
timerVars == <<activeTab, timerTaskId, timerSubtaskId, timeLeft, initialTime, isActive>>
persistVars == <<stored, effects>>
vars == <<goals, sessions, logs, activeTab, timerTaskId, timerSubtaskId,
          timeLeft, initialTime, isActive, now, nextId, stored, effects>>

----------------------------------------------------------------------------
(* Bounds of the model *)

\* Number of events (handler invocations) followed from the initial state.
MaxNow == 2

\* Number of events followed in the specification of the timer screen.
MaxTimerNow == 8
\* Number of events followed when the goal tree and the timer alternate.
MaxAppNow == 5
\* The longest single session of the calendar's initial ledgers, in minutes
MaxMinutes == 1440

----------------------------------------------------------------------------
(* JavaScript helpers *)

\* obj.f !== undefined
Has(obj, f) == f \in DOMAIN obj

\* obj.f || d, for a numeric field: undefined and 0 are both falsy
OrElse(obj, f, d) == IF Has(obj, f) /\ obj[f] # 0 THEN obj[f] ELSE d

\* {...obj} without key f (a spread that assigns f: undefined)
Without(obj, f) == [k \in (DOMAIN obj) \ {f} |-> obj[k]]

\* array.map(F)
Map(arr, F(_)) == [i \in 1..Len(arr) |-> F(arr[i])]

\* array.findIndex(Test), 1-based; 0 when no element passes (JS: -1)
FindIndex(arr, Test(_)) ==
    IF \E i \in 1..Len(arr) : Test(arr[i])
    THEN CHOOSE i \in 1..Len(arr) :
            Test(arr[i]) /\ \A j \in 1..(i - 1) : ~Test(arr[j])
    ELSE 0

\* Math.round(n / d) for d > 0: the nearest integer, halves towards +Infinity
Round(n, d) == (2 * n + d) \div (2 * d)

\* Sum of f over a finite set of indices
RECURSIVE SumOver(_, _)
SumOver(S, f) ==
    IF S = {} THEN 0
    ELSE LET i == CHOOSE j \in S : TRUE IN f[i] + SumOver(S \ {i}, f)

----------------------------------------------------------------------------
(* storage.ts: the default data *)

\* storage.ts:14-64, after the parentId fix of lines 67-72.  The uuidv4()
\* calls of lines 16-53 return 1..8 in evaluation order.
generateMockData(t) ==
    << [ id |-> 1, title |-> "Learn Full Stack Development",
         description |-> "Master React, Node, and Databases",
         createdAt |-> t, color |-> "calm",
         tasks |-> <<
           [ id |-> 2, parentId |-> 1, title |-> "Daily Coding Practice",
             type |-> "time", targetDurationMinutes |-> 60, period |-> "day",
             subtasks |-> <<>>, isCompleted |-> FALSE ],
           [ id |-> 3, parentId |-> 1, title |-> "Build Portfolio Projects",
             type |-> "count",
             subtasks |-> <<
               [ id |-> 4, parentId |-> 3, title |-> "E-commerce App",
                 isCompleted |-> FALSE, totalTimeSpent |-> 0 ],
               [ id |-> 5, parentId |-> 3, title |-> "Task Manager",
                 isCompleted |-> FALSE, totalTimeSpent |-> 0 ],
               [ id |-> 6, parentId |-> 3, title |-> "Blog Platform",
                 isCompleted |-> FALSE, totalTimeSpent |-> 0 ] >>,
             isCompleted |-> FALSE ] >> ],
       [ id |-> 7, title |-> "Fitness & Health",
         createdAt |-> t, color |-> "fresh",
         tasks |-> <<
           [ id |-> 8, parentId |-> 7, title |-> "Weekly Gym Sessions",
             type |-> "time", targetDurationMinutes |-> 300, period |-> "week",
             subtasks |-> <<>>, isCompleted |-> FALSE ] >> ] >>

\* The first id randomUUID() hands out after the default data was built.
FirstFreshId == 9

\* An id no entity ever carries (a stale or mistyped reference).
NoSuchId == 0

\* null, the value of timerTaskId / timerSubtaskId before a focus was started
Null == -1

----------------------------------------------------------------------------
(* Views of the store *)

GoalIds(gs) == { gs[i].id : i \in 1..Len(gs) }
TasksOf(gs) == UNION { { g.tasks[j] : j \in 1..Len(g.tasks) } : g \in { gs[i] : i \in 1..Len(gs) } }
TaskIds(gs) == { t.id : t \in TasksOf(gs) }
SubtasksOf(gs) == UNION { { t.subtasks[k] : k \in 1..Len(t.subtasks) } : t \in TasksOf(gs) }
SubtaskIds(gs) == { s.id : s \in SubtasksOf(gs) }

\* The task with the given ids, when both resolve.
Resolves(gs, goalId, taskId) ==
    \E i \in 1..Len(gs) : gs[i].id = goalId /\ \E j \in 1..Len(gs[i].tasks) : gs[i].tasks[j].id = taskId

----------------------------------------------------------------------------
(* Inputs of the handlers, drawn from small sets *)

\* Values the goal, task and subtask forms submit.
GoalTitles == {"New Goal"}
GoalColors == {"clean"}
TaskTitles == {"New Task"}
SubtaskTitles == {"New Subtask"}
TaskTargets == {30, 0, -30}
TaskPeriods == {"day"}

\* GoalTree.handleTaskSubmit (part_001:594-616): the fields a task form
\* hands to onAddTask / onUpdateTask.  For a count task the keys
\* targetDurationMinutes and period are undefined.
TaskForms ==
    { [title |-> ti, type |-> "time", targetDurationMinutes |-> d, period |-> p] :
        ti \in TaskTitles, d \in TaskTargets, p \in TaskPeriods }
    \cup { [title |-> ti, type |-> "count"] : ti \in TaskTitles }

\* The keys a task form sets; those missing from the form are set to undefined.
TaskFormKeys == {"title", "type", "targetDurationMinutes", "period"}

\* Minutes of the sessions handed to handleSessionComplete.
Durations == {20, 45, 60}

\* Ids a caller may pass: those of the store and one that resolves to nothing.
GoalIdInputs == GoalIds(goals) \cup {NoSuchId}
TaskIdInputs == TaskIds(goals) \cup {NoSuchId}

\* The references a session may carry: any goal id with any task id (the
\* task under its goal, under another goal, or either one unresolved), and
\* every task under its goal with each of its subtasks or an unresolved one.
SessionRefs(gs) ==
    LET G == { gs[i] : i \in 1..Len(gs) }
        T(g) == { g.tasks[j] : j \in 1..Len(g.tasks) }
        S(t) == { t.subtasks[k].id : k \in 1..Len(t.subtasks) }
    IN  { [goalId |-> g, taskId |-> t] :
            g \in GoalIds(gs) \cup {NoSuchId}, t \in TaskIds(gs) \cup {NoSuchId} }
        \cup UNION { UNION { { [goalId |-> g.id, taskId |-> t.id, subtaskId |-> s] :
                                 s \in S(t) \cup (IF S(t) = {} THEN {} ELSE {NoSuchId}) } :
                             t \in T(g) } : g \in G }

\* The references a subtask handler may be called with: every subtask under
\* its task and goal, and each of these with one of the three ids unresolved.
SubtaskRefs(gs) ==
    LET hits == UNION { UNION { { <<gs[i].id, gs[i].tasks[j].id, gs[i].tasks[j].subtasks[k].id>> :
                                    k \in 1..Len(gs[i].tasks[j].subtasks) } :
                                j \in 1..Len(gs[i].tasks) } : i \in 1..Len(gs) }
    IN  hits
        \cup { <<NoSuchId, r[2], r[3]>> : r \in hits }
        \cup { <<r[1], NoSuchId, r[3]>> : r \in hits }
        \cup { <<r[1], r[2], NoSuchId>> : r \in hits }

\* part_001:34-35: useState(25 * 60)
DefaultSeconds == 25 * 60

\* Seconds into a run at which the user is seen to act (pause, stop, leave):
\* around the one-minute threshold and around the first rounding boundary.
UserMoments == {59, 60, 89, 90}

\* The [start, end] a range and a reference date resolve to: instants around
\* the start times of the recorded sessions and the instants of the events.
IntervalEnds == {-2000000, 0, 2}
Intervals == { interval \in IntervalEnds \X IntervalEnds : interval[1] < interval[2] }

\* Daily logs handed to handleSaveLog: any subset of the optional fields.
LogDates == {"2024-01-01", "2024-01-02"}
LogMoods == {"good", "bad"}
LogJournals == {"note"}
LogInputs ==
    { [date |-> d] : d \in LogDates }
    \cup { [date |-> d, mood |-> m] : d \in LogDates, m \in LogMoods }
    \cup { [date |-> d, journal |-> j] : d \in LogDates, j \in LogJournals }
    \cup { [date |-> d, mood |-> m, journal |-> j] :
             d \in LogDates, m \in LogMoods, j \in LogJournals }

----------------------------------------------------------------------------
(* App.tsx: the records the handlers build *)

\* App.tsx:103-109
NewGoal(id, title, color, t) ==
    [id |-> id, title |-> title, color |-> color, createdAt |-> t, tasks |-> <<>>]

\* App.tsx:126-133: { ...task, id, parentId, subtasks, isCompleted, totalTimeSpent }
NewTask(task, id, goalId) ==
    [id |-> id, parentId |-> goalId, subtasks |-> <<>>, isCompleted |-> FALSE,
     totalTimeSpent |-> 0] @@ task

\* Mutant of NewSubtask: the subtask takes the id of its task.
NewSubtaskSameId(id, taskId, title) ==
    [id |-> taskId, parentId |-> taskId, title |-> title, isCompleted |-> FALSE,
     totalTimeSpent |-> 0]

\* App.tsx:173
NewSubtask(id, taskId, title) ==
    [id |-> id, parentId |-> taskId, title |-> title, isCompleted |-> FALSE,
     totalTimeSpent |-> 0]

\* Mutant of MergeTask: the edit starts the task's total again.
MergeTaskResetsTotal(t, updates) ==
    updates @@ [totalTimeSpent |-> 0]
    @@ [k \in (DOMAIN t) \ (TaskFormKeys \ DOMAIN updates) |-> t[k]]

\* App.tsx:145: { ...t, ...updates }, the form's missing keys becoming undefined
MergeTask(t, updates) ==
    updates @@ [k \in (DOMAIN t) \ (TaskFormKeys \ DOMAIN updates) |-> t[k]]

\* Mutant of ToggleOne: un-completing keeps the old completedAt.
ToggleOneKeepStamp(s, t) ==
    IF ~s.isCompleted
    THEN [isCompleted |-> TRUE, completedAt |-> t] @@ s
    ELSE [isCompleted |-> FALSE] @@ s

\* App.tsx:234-242: the subtask after a toggle at instant t
ToggleOne(s, t) ==
    IF ~s.isCompleted
    THEN [isCompleted |-> TRUE, completedAt |-> t] @@ s
    ELSE [isCompleted |-> FALSE] @@ Without(s, "completedAt")

\* Mutant of RollupSubtasks: the minutes go to every subtask of the task.
RollupSubtasksAll(subtasks, subtaskId, minutes) ==
    Map(subtasks, LAMBDA s : [s EXCEPT !.totalTimeSpent = @ + minutes])

\* App.tsx:284: the subtasks of a task after a session for subtaskId
RollupSubtasks(subtasks, subtaskId, minutes) ==
    Map(subtasks, LAMBDA s :
        IF s.id = subtaskId THEN [s EXCEPT !.totalTimeSpent = @ + minutes] ELSE s)

\* Mutant of RollupIsCompleted: the target must be exceeded, not reached.
RollupIsCompletedStrict(t, newTotal) ==
    IF t.type = "time" /\ OrElse(t, "targetDurationMinutes", 0) # 0
    THEN newTotal > t.targetDurationMinutes
    ELSE t.isCompleted

\* App.tsx:277-279: the task's completion flag after its total became newTotal
RollupIsCompleted(t, newTotal) ==
    IF t.type = "time" /\ OrElse(t, "targetDurationMinutes", 0) # 0
    THEN newTotal >= t.targetDurationMinutes
    ELSE t.isCompleted

\* Mutant of RollupCompletedAt: stamps every rollup of a completed task.
RollupCompletedAtAlways(t, isCompleted, tNow) ==
    IF isCompleted THEN [completedAt |-> tNow] ELSE <<>>

\* App.tsx:291: completedAt after the rollup, as the set of keys to override
RollupCompletedAt(t, isCompleted, tNow) ==
    IF isCompleted /\ ~t.isCompleted THEN [completedAt |-> tNow] ELSE <<>>

\* Mutant of RollupTask: a session of a subtask adds its minutes to the
\* subtask only.
RollupTaskSubtaskOnly(t, session, tNow) ==
    LET currentTotal == OrElse(t, "totalTimeSpent", 0)
        newTotal == IF Has(session, "subtaskId") THEN currentTotal
                    ELSE currentTotal + session.durationMinutes
        isCompleted == RollupIsCompleted(t, newTotal)
        updatedSubtasks ==
            IF Has(session, "subtaskId")
            THEN RollupSubtasks(t.subtasks, session.subtaskId, session.durationMinutes)
            ELSE t.subtasks
    IN  RollupCompletedAt(t, isCompleted, tNow)
        @@ [totalTimeSpent |-> newTotal, isCompleted |-> isCompleted,
            subtasks |-> updatedSubtasks]
        @@ t

\* App.tsx:271-293: the task a session refers to, after the rollup at instant tNow
RollupTask(t, session, tNow) ==
    LET currentTotal == OrElse(t, "totalTimeSpent", 0)
        newTotal == currentTotal + session.durationMinutes
        isCompleted == RollupIsCompleted(t, newTotal)
        updatedSubtasks ==
            IF Has(session, "subtaskId")
            THEN RollupSubtasks(t.subtasks, session.subtaskId, session.durationMinutes)
            ELSE t.subtasks
    IN  RollupCompletedAt(t, isCompleted, tNow)
        @@ [totalTimeSpent |-> newTotal, isCompleted |-> isCompleted,
            subtasks |-> updatedSubtasks]
        @@ t

\* Mutant of RollupGoals: the task is looked up in every goal.
RollupGoalsAnyGoal(gs, session, tNow) ==
    Map(gs, LAMBDA g :
        [g EXCEPT !.tasks = Map(@, LAMBDA t :
            IF t.id = session.taskId THEN RollupTask(t, session, tNow) ELSE t)])

\* App.tsx:264-300: goals.map(...) of handleSessionComplete
RollupGoals(gs, session, tNow) ==
    Map(gs, LAMBDA g :
        IF g.id = session.goalId
        THEN [g EXCEPT !.tasks = Map(@, LAMBDA t :
                 IF t.id = session.taskId THEN RollupTask(t, session, tNow) ELSE t)]
        ELSE g)

\* An upsert that keeps the old entry's fields the new log does not carry.
UpsertLogMerging(prev, log) ==
    LET existing == FindIndex(prev, LAMBDA l : l.date = log.date)
    IN  IF existing >= 1
        THEN [prev EXCEPT ![existing] = log @@ prev[existing]]
        ELSE Append(prev, log)

\* App.tsx:304-312: the updater of handleSaveLog
UpsertLog(prev, log) ==
    LET existing == FindIndex(prev, LAMBDA l : l.date = log.date)
    IN  IF existing >= 1 THEN [prev EXCEPT ![existing] = log] ELSE Append(prev, log)

----------------------------------------------------------------------------
(* App.tsx: the handlers, one action each *)

\* Every handler runs at a new instant, which Date.now() returns inside it;
\* the model follows MaxNow events.
Step == now < MaxNow /\ now' = now + 1

\* storage.ts:91-117: what localStorage holds once the three collections are
\* saved; the value of a key is <<value>>, and <<>> for a key never written
Saved(gs, ss, ls) == [goals |-> <<gs>>, sessions |-> <<ss>>, logs |-> <<ls>>]

\* App.tsx:58-60: the save effects that follow the render of a handler's
\* update, run to their end
SaveEffects ==
    /\ stored' = Saved(goals', sessions', logs')
    /\ effects' = effects

\* App.tsx:102-111
handleAddGoal(title, color) ==
    /\ UNCHANGED <<sessions, logs, timerVars>>
    /\ nextId' = nextId + 1
    /\ goals' = Append(goals, NewGoal(nextId, title, color, now'))

\* App.tsx:113-115
handleUpdateGoal(goalId, updates) ==
    /\ UNCHANGED <<sessions, logs, timerVars, nextId>>
    /\ goals' = Map(goals, LAMBDA g : IF g.id = goalId THEN updates @@ g ELSE g)

\* App.tsx:118
DeleteGoal(gs, id) == SelectSeq(gs, LAMBDA g : g.id # id)

\* App.tsx:117-119
handleDeleteGoal(id) ==
    /\ UNCHANGED <<sessions, logs, timerVars, nextId>>
    /\ goals' = DeleteGoal(goals, id)

\* App.tsx:121-138
handleAddTask(goalId, task) ==
    /\ UNCHANGED <<sessions, logs, timerVars>>
    /\ nextId' = nextId + 1
    /\ goals' = Map(goals, LAMBDA g :
            IF g.id = goalId
            THEN [g EXCEPT !.tasks = Append(@, NewTask(task, nextId, goalId))]
            ELSE g)

\* App.tsx:140-150
handleUpdateTask(goalId, taskId, updates) ==
    /\ UNCHANGED <<sessions, logs, timerVars, nextId>>
    /\ goals' = Map(goals, LAMBDA g :
            IF g.id = goalId
            THEN [g EXCEPT !.tasks = Map(@, LAMBDA t :
                     IF t.id = taskId THEN MergeTask(t, updates) ELSE t)]
            ELSE g)

\* App.tsx:153-161
DeleteTask(gs, goalId, taskId) ==
    Map(gs, LAMBDA g :
        IF g.id = goalId
        THEN [g EXCEPT !.tasks = SelectSeq(@, LAMBDA t : t.id # taskId)]
        ELSE g)

\* App.tsx:152-162
handleDeleteTask(goalId, taskId) ==
    /\ UNCHANGED <<sessions, logs, timerVars, nextId>>
    /\ goals' = DeleteTask(goals, goalId, taskId)

\* App.tsx:164-182
handleAddSubtask(goalId, taskId, title) ==
    /\ UNCHANGED <<sessions, logs, timerVars>>
    /\ nextId' = nextId + 1
    /\ goals' = Map(goals, LAMBDA g :
            IF g.id = goalId
            THEN [g EXCEPT !.tasks = Map(@, LAMBDA t :
                     IF t.id = taskId
                     THEN [t EXCEPT !.subtasks = Append(@, NewSubtask(nextId, taskId, title))]
                     ELSE t)]
            ELSE g)

\* App.tsx:184-202
handleUpdateSubtask(goalId, taskId, subtaskId, updates) ==
    /\ UNCHANGED <<sessions, logs, timerVars, nextId>>
    /\ goals' = Map(goals, LAMBDA g :
            IF g.id = goalId
            THEN [g EXCEPT !.tasks = Map(@, LAMBDA t :
                     IF t.id = taskId
                     THEN [t EXCEPT !.subtasks = Map(@, LAMBDA s :
                              IF s.id = subtaskId THEN updates @@ s ELSE s)]
                     ELSE t)]
            ELSE g)

\* App.tsx:204-222
handleDeleteSubtask(goalId, taskId, subtaskId) ==
    /\ UNCHANGED <<sessions, logs, timerVars, nextId>>
    /\ goals' = Map(goals, LAMBDA g :
            IF g.id = goalId
            THEN [g EXCEPT !.tasks = Map(@, LAMBDA t :
                     IF t.id = taskId
                     THEN [t EXCEPT !.subtasks = SelectSeq(@, LAMBDA s : s.id # subtaskId)]
                     ELSE t)]
            ELSE g)

\* App.tsx:224-252
handleToggleSubtask(goalId, taskId, subtaskId) ==
    /\ UNCHANGED <<sessions, logs, timerVars, nextId>>
    /\ goals' = Map(goals, LAMBDA g :
            IF g.id = goalId
            THEN [g EXCEPT !.tasks = Map(@, LAMBDA t :
                     IF t.id = taskId
                     THEN [t EXCEPT !.subtasks = Map(@, LAMBDA s :
                              IF s.id = subtaskId THEN ToggleOne(s, now') ELSE s)]
                     ELSE t)]
            ELSE g)

\* Mutant of LedgerAppend: the new session is put in front.
LedgerPrepend(prev, session) == <<session>> \o prev

\* App.tsx:261: prev => [...prev, session]
LedgerAppend(prev, session) == Append(prev, session)

\* App.tsx:260-301: the ledger append of line 261 and the rollup of 264-300
SessionComplete(session) ==
    /\ sessions' = LedgerAppend(sessions, session)
    /\ goals' = RollupGoals(goals, session, now')

\* handleSessionComplete called with a session the caller built at this instant
handleSessionComplete(session) ==
    /\ UNCHANGED <<logs, timerVars>>
    /\ nextId' = nextId + 1
    /\ SessionComplete(session)

\* App.tsx:303-313
handleSaveLog(log) ==
    /\ UNCHANGED <<goals, sessions, timerVars, nextId>>
    /\ logs' = UpsertLog(logs, log)

\* A session whose startTime is taken back by seconds, not milliseconds.
FocusSessionInSeconds(id, ref, seconds, minutes, t) ==
    [id |-> id, startTime |-> t - seconds, endTime |-> t,
     durationMinutes |-> minutes, note |-> "Pomodoro Session"] @@ ref

\* A FocusSession (types, part_002:46-55) for the reference ref, ending at
\* instant t after `seconds` of focus recorded as `minutes`.
FocusSession(id, ref, seconds, minutes, t) ==
    [id |-> id, startTime |-> t - seconds * 1000, endTime |-> t,
     durationMinutes |-> minutes, note |-> "Pomodoro Session"] @@ ref

\* The sessions a caller may hand over at this instant.
SessionInputs ==
    { FocusSession(nextId, ref, m * 60, m, now + 1) :
        ref \in SessionRefs(goals), m \in Durations }

\* The references of the sessions the timer hands over (part_001:170-173):
\* a task under its goal, alone or with one of its subtasks.
RecordedRefs(gs) ==
    UNION { UNION { {[goalId |-> gs[i].id, taskId |-> gs[i].tasks[j].id]}
                    \cup { [goalId |-> gs[i].id, taskId |-> gs[i].tasks[j].id,
                            subtaskId |-> gs[i].tasks[j].subtasks[k].id] :
                              k \in 1..Len(gs[i].tasks[j].subtasks) } :
                    j \in 1..Len(gs[i].tasks) } : i \in 1..Len(gs) }

\* The sessions the timer may hand over at this instant.
RecordedSessions ==
    { FocusSession(nextId, ref, m * 60, m, now + 1) :
        ref \in RecordedRefs(goals), m \in Durations }

\* The daily log handleSaveLog receives in the store specification.
StoreLogInputs == { l \in LogInputs : DOMAIN l = {"date"} }

----------------------------------------------------------------------------
(* Timer component (part_001:1-430) and the App handlers that show it *)

\* part_001:58-61: the updater of one interval callback
TickOnce(prev) == IF prev <= 0 THEN 0 ELSE prev - 1

\* k interval callbacks in a row: the updater applied k times, the first
\* half of the ticks, then the rest from the value they left
RECURSIVE Ticks(_, _)
Ticks(prev, k) ==
    IF k = 0 THEN prev
    ELSE IF k = 1 THEN TickOnce(prev)
    ELSE CHOOSE left \in { Ticks(mid, k - (k \div 2)) :
                             mid \in {Ticks(prev, k \div 2)} } : TRUE

\* part_001:20-32: the index of the first goal holding the task, 0 if none
ActiveGoalIndex(gs, taskId) ==
    IF taskId = Null THEN 0
    ELSE FindIndex(gs, LAMBDA g : \E j \in 1..Len(g.tasks) : g.tasks[j].id = taskId)

\* part_001:22: g.tasks.find(t => t.id === taskId), for a goal that holds it
ActiveTask(g, taskId) ==
    g.tasks[FindIndex(g.tasks, LAMBDA t : t.id = taskId)]

\* part_001:26-28: the subtask the focus is on, as a set (empty: undefined)
ActiveSubtask(t, subtaskId) ==
    IF subtaskId = Null THEN {}
    ELSE LET k == FindIndex(t.subtasks, LAMBDA sub : sub.id = subtaskId)
         IN  IF k = 0 THEN {} ELSE {t.subtasks[k]}

\* part_001:171-173: the ids of the session of the current context
ContextRef(gs, taskId, subtaskId) ==
    LET g == gs[ActiveGoalIndex(gs, taskId)]
        t == ActiveTask(g, taskId)
        sub == ActiveSubtask(t, subtaskId)
    IN  IF sub = {}
        THEN [goalId |-> g.id, taskId |-> t.id]
        ELSE [goalId |-> g.id, taskId |-> t.id,
              subtaskId |-> (CHOOSE x \in sub : TRUE).id]

\* part_001:147: Math.round(elapsedSeconds / 60)
DurationMinutes(elapsedSeconds) == Round(elapsedSeconds, 60)

\* part_001:150
IsValidSession(durationMinutes) == durationMinutes >= 1

\* part_001:144-187: handleComplete(elapsedSeconds), resetTimer included
handleComplete(elapsedSeconds) ==
    LET durationMinutes == DurationMinutes(elapsedSeconds)
    IN  /\ isActive' = FALSE
        /\ timeLeft' = initialTime
        /\ IF /\ IsValidSession(durationMinutes)
              /\ ActiveGoalIndex(goals, timerTaskId) # 0
           THEN /\ SessionComplete(
                      FocusSession(nextId, ContextRef(goals, timerTaskId, timerSubtaskId),
                                   elapsedSeconds, durationMinutes, now'))
                /\ nextId' = nextId + 1
           ELSE UNCHANGED <<goals, sessions, nextId>>
        /\ UNCHANGED <<logs, activeTab, timerTaskId, timerSubtaskId, initialTime>>

\* App.tsx:254-258; the Timer mounts with its initial state
handleStartFocus(taskId, subtaskId) ==
    /\ activeTab = "goals"
    /\ timerTaskId' = taskId
    /\ timerSubtaskId' = subtaskId
    /\ activeTab' = "timer"
    /\ timeLeft' = DefaultSeconds
    /\ initialTime' = DefaultSeconds
    /\ isActive' = FALSE
    /\ UNCHANGED <<goals, sessions, logs, nextId>>

\* App.tsx:334: onExit; the Timer unmounts and its state is dropped
onExit ==
    /\ activeTab = "timer"
    /\ activeTab' = "goals"
    /\ timeLeft' = DefaultSeconds
    /\ initialTime' = DefaultSeconds
    /\ isActive' = FALSE
    /\ UNCHANGED <<goals, sessions, logs, nextId, timerTaskId, timerSubtaskId>>

\* The completion effect of part_001:72-76 is due: it runs before the next event.
EffectDue == activeTab = "timer" /\ timeLeft = 0 /\ isActive

\* part_001:189-205
toggleTimer ==
    /\ activeTab = "timer" /\ ~EffectDue
    /\ isActive' = ~isActive
    /\ UNCHANGED <<goals, sessions, logs, nextId, activeTab, timerTaskId,
                   timerSubtaskId, timeLeft, initialTime>>

\* part_001:57-62: k ticks of the interval, up to the next moment the user
\* acts at or to the end of the countdown
Tick(k) ==
    /\ activeTab = "timer" /\ isActive /\ ~EffectDue
    /\ k >= 1 /\ k <= timeLeft
    /\ (initialTime - (timeLeft - k)) \in UserMoments \cup {initialTime}
    /\ timeLeft' = Ticks(timeLeft, k)
    /\ UNCHANGED <<goals, sessions, logs, nextId, activeTab, timerTaskId,
                   timerSubtaskId, initialTime, isActive>>

\* part_001:72-76: natural end
CompletionEffect ==
    /\ EffectDue
    /\ handleComplete(initialTime)

\* An early stop that also discards a run of exactly one minute.
StopDiscardsAtMinute(elapsed) == elapsed <= 60

\* part_001:214-215: an early stop this short is discarded
StopDiscards(elapsed) == elapsed < 60

\* part_001:212-220; the button is shown when timeLeft !== initialTime (327)
handleStopEarly ==
    /\ activeTab = "timer" /\ ~EffectDue
    /\ timeLeft # initialTime
    /\ LET elapsed == initialTime - timeLeft
       IN  IF StopDiscards(elapsed)
           THEN /\ isActive' = FALSE
                /\ timeLeft' = initialTime
                /\ UNCHANGED <<goals, sessions, logs, nextId, activeTab, timerTaskId,
                               timerSubtaskId, initialTime>>
           ELSE handleComplete(elapsed)

\* part_001:207-210, from the reset button (336-343): shown when
\* timeLeft === initialTime, disabled while active
resetTimer ==
    /\ activeTab = "timer" /\ ~EffectDue
    /\ timeLeft = initialTime /\ ~isActive
    /\ isActive' = FALSE
    /\ timeLeft' = initialTime
    /\ UNCHANGED <<goals, sessions, logs, nextId, activeTab, timerTaskId,
                   timerSubtaskId, initialTime>>

\* part_001:224: Math.max(60, timeLeft + minutes * 60)
AdjustedTime(left, minutes) ==
    IF left + minutes * 60 > 60 THEN left + minutes * 60 ELSE 60

\* part_001:222-228; the +/- buttons are shown while not active (294, 312)
adjustTime(minutes) ==
    /\ activeTab = "timer"
    /\ ~isActive
    /\ timeLeft' = AdjustedTime(timeLeft, minutes)
    /\ initialTime' = AdjustedTime(timeLeft, minutes)
    /\ UNCHANGED <<goals, sessions, logs, nextId, activeTab, timerTaskId,
                   timerSubtaskId, isActive>>

\* part_001:933-939, 1017-1023: Start on a time task, Focus on a subtask of a
\* count task
FocusTargets(gs) ==
    { <<t.id, Null>> : t \in { x \in TasksOf(gs) : x.type = "time" } }
    \cup UNION { { <<t.id, t.subtasks[k].id>> : k \in 1..Len(t.subtasks) } :
                 t \in { x \in TasksOf(gs) : x.type = "count" } }

----------------------------------------------------------------------------
(* The store under arbitrary calls of its handlers *)

\* storage.ts:83-89: loadGoals() returns the stored goals of an earlier run, or
\* the default data on the first one.  The stored goals explored are the
\* default data after its second goal and its count task were deleted: one
\* goal with one time task.
StoredGoals == { DeleteTask(DeleteGoal(generateMockData(0), 7), 1, 3) }

loadGoals == { generateMockData(0) } \cup StoredGoals

Init ==
    /\ goals \in loadGoals
    /\ sessions = <<>>
    /\ logs = <<>>
    /\ activeTab = "goals"
    /\ timerTaskId = Null
    /\ timerSubtaskId = Null
    /\ timeLeft = DefaultSeconds
    /\ initialTime = DefaultSeconds
    /\ isActive = FALSE
    /\ now = 0
    /\ nextId = FirstFreshId
    /\ effects = <<>>
    /\ stored = Saved(goals, sessions, logs)

StoreNext ==
    \/ \E ti \in GoalTitles, c \in GoalColors : handleAddGoal(ti, c)
    \/ \E g \in GoalIdInputs, ti \in GoalTitles, c \in GoalColors :
          handleUpdateGoal(g, [title |-> ti, color |-> c])
    \/ \E g \in GoalIdInputs : handleDeleteGoal(g)
    \/ \E g \in GoalIdInputs, f \in TaskForms : handleAddTask(g, f)
    \/ \E g \in GoalIdInputs, t \in TaskIdInputs, f \in TaskForms : handleUpdateTask(g, t, f)
    \/ \E g \in GoalIdInputs, t \in TaskIdInputs : handleDeleteTask(g, t)
    \/ \E g \in GoalIdInputs, t \in TaskIdInputs, ti \in SubtaskTitles : handleAddSubtask(g, t, ti)
    \/ \E r \in SubtaskRefs(goals), ti \in SubtaskTitles :
          handleUpdateSubtask(r[1], r[2], r[3], [title |-> ti])
    \/ \E r \in SubtaskRefs(goals) : handleDeleteSubtask(r[1], r[2], r[3])
    \/ \E r \in SubtaskRefs(goals) : handleToggleSubtask(r[1], r[2], r[3])
    \/ \E session \in SessionInputs : handleSessionComplete(session)
    \/ \E log \in StoreLogInputs : handleSaveLog(log)

Next == Step /\ StoreNext /\ SaveEffects

Spec == Init /\ [][Next]_vars

----------------------------------------------------------------------------
(* The store as the screens drive it: the sessions are those of the timer *)

DashboardNext ==
    /\ Step
    /\ \/ \E ti \in GoalTitles, c \in GoalColors : handleAddGoal(ti, c)
       \/ \E g \in GoalIds(goals) : handleDeleteGoal(g)
       \/ \E g \in GoalIds(goals), f \in TaskForms : handleAddTask(g, f)
       \/ \E r \in RecordedRefs(goals), f \in TaskForms :
             handleUpdateTask(r.goalId, r.taskId, f)
       \/ \E r \in RecordedRefs(goals) : handleDeleteTask(r.goalId, r.taskId)
       \/ \E r \in RecordedRefs(goals), ti \in SubtaskTitles :
             handleAddSubtask(r.goalId, r.taskId, ti)
       \/ \E r \in RecordedRefs(goals) :
             /\ Has(r, "subtaskId")
             /\ \/ handleToggleSubtask(r.goalId, r.taskId, r.subtaskId)
                \/ handleDeleteSubtask(r.goalId, r.taskId, r.subtaskId)
       \/ \E session \in RecordedSessions : handleSessionComplete(session)
    /\ SaveEffects

DashboardSpec == Init /\ [][DashboardNext]_vars

----------------------------------------------------------------------------
(* The same, started on the goals an earlier run stored after one task was
   edited in the form *)

\* storage.ts:83-85: the stored goals, here the default data after
\* handleUpdateTask on its first task with any form
EditedGoals ==
    { Map(generateMockData(0), LAMBDA g :
          IF g.id = 1
          THEN [g EXCEPT !.tasks = Map(@, LAMBDA t : IF t.id = 2 THEN MergeTask(t, f) ELSE t)]
          ELSE g) : f \in TaskForms }

EditedInit ==
    /\ goals \in EditedGoals
    /\ sessions = <<>>
    /\ logs = <<>>
    /\ activeTab = "goals"
    /\ timerTaskId = Null
    /\ timerSubtaskId = Null
    /\ timeLeft = DefaultSeconds
    /\ initialTime = DefaultSeconds
    /\ isActive = FALSE
    /\ now = 0
    /\ nextId = FirstFreshId
    /\ effects = <<>>
    /\ stored = Saved(goals, sessions, logs)

EditedSpec == EditedInit /\ [][DashboardNext]_vars

----------------------------------------------------------------------------
(* The calendar over a ledger: one earlier session of any length, then the
   sessions the timer hands over *)

\* The ledger and the goals of an earlier run with at most one session, for
\* the only task of the stored goal
CalendarLedgers ==
    { <<gs, <<>>>> : gs \in StoredGoals }
    \cup { <<RollupGoals(gs, session, 0), <<session>>>> :
             gs \in StoredGoals,
             session \in { FocusSession(FirstFreshId, ref, m * 60, m, 0) :
                             ref \in UNION { RecordedRefs(g) : g \in StoredGoals },
                             m \in 1..MaxMinutes } }

CalendarInit ==
    /\ \E ledger \in CalendarLedgers :
          /\ goals = ledger[1]
          /\ sessions = ledger[2]
          /\ nextId = FirstFreshId + Len(ledger[2])
    /\ logs = <<>>
    /\ activeTab = "calendar"
    /\ timerTaskId = Null
    /\ timerSubtaskId = Null
    /\ timeLeft = DefaultSeconds
    /\ initialTime = DefaultSeconds
    /\ isActive = FALSE
    /\ now = 0
    /\ effects = <<>>
    /\ stored = Saved(goals, sessions, logs)

CalendarNext ==
    /\ Step
    /\ \E session \in RecordedSessions : handleSessionComplete(session)
    /\ SaveEffects

CalendarSpec == CalendarInit /\ [][CalendarNext]_vars

----------------------------------------------------------------------------
(* The daily logs under arbitrary upserts *)

\* storage.ts:110-113: loadLogs() returns the stored logs of an earlier run
\* (one entry per date), or none.
loadLogs ==
    { <<>>,
      << [date |-> "2024-01-01", mood |-> "good", journal |-> "note"],
         [date |-> "2024-01-02", mood |-> "bad"] >> }

LogInit ==
    /\ goals = generateMockData(0)
    /\ sessions = <<>>
    /\ logs \in loadLogs
    /\ activeTab = "goals"
    /\ timerTaskId = Null
    /\ timerSubtaskId = Null
    /\ timeLeft = DefaultSeconds
    /\ initialTime = DefaultSeconds
    /\ isActive = FALSE
    /\ now = 0
    /\ nextId = FirstFreshId
    /\ effects = <<>>
    /\ stored = Saved(goals, sessions, logs)

LogNext == Step /\ (\E log \in LogInputs : handleSaveLog(log)) /\ SaveEffects

LogSpec == LogInit /\ [][LogNext]_vars

----------------------------------------------------------------------------
(* The mount of App (App.tsx:12-60): the first render has the empty initial
   state; its effects run in the order of their declaration, the load effect
   and then the three save effects with the values of that render; the state
   updates of the load effect are rendered after them, and that render queues
   the save effects again.  Later handlers run once the queue is empty. *)

\* App.tsx:58-60: the save effects of a render with these values
SaveQueue(gs, ss, ls) ==
    << [run |-> "saveGoals", value |-> gs],
       [run |-> "saveSessions", value |-> ss],
       [run |-> "saveLogs", value |-> ls] >>

\* What localStorage holds before the start: nothing on the first run, or the
\* collections an earlier run saved
StoredBefore ==
    LET earlier ==
            { <<gs, <<>>>> : gs \in StoredGoals \cup EditedGoals }
            \cup { <<RollupGoals(gs, session, 0), <<session>>>> :
                     gs \in StoredGoals,
                     session \in { FocusSession(FirstFreshId, ref, 20 * 60, 20, 0) :
                                     ref \in UNION { RecordedRefs(g) : g \in StoredGoals } } }
    IN  { [goals |-> <<>>, sessions |-> <<>>, logs |-> <<>>] }
        \cup { Saved(run[1], run[2], ls) : run \in earlier, ls \in loadLogs }

\* storage.ts:83-89: loadGoals() on the storage st: the value returned and the
\* storage it leaves
LoadGoals(st, t) ==
    IF st.goals # <<>>
    THEN [value |-> st.goals[1], store |-> st]
    ELSE [value |-> generateMockData(t),
          store |-> [st EXCEPT !.goals = <<generateMockData(t)>>]]

\* storage.ts:95-104: loadSessions(); without stored sessions it calls
\* loadGoals() and saves the empty default
LoadSessions(st, t) ==
    IF st.sessions # <<>>
    THEN [value |-> st.sessions[1], store |-> st]
    ELSE [value |-> <<>>,
          store |-> [LoadGoals(st, t).store EXCEPT !.sessions = << <<>> >>]]

\* storage.ts:110-113: loadLogs() writes nothing
LoadLogs(st) == IF st.logs # <<>> THEN st.logs[1] ELSE <<>>

MountInit ==
    /\ goals = <<>>
    /\ sessions = <<>>
    /\ logs = <<>>
    /\ activeTab = "goals"
    /\ timerTaskId = Null
    /\ timerSubtaskId = Null
    /\ timeLeft = DefaultSeconds
    /\ initialTime = DefaultSeconds
    /\ isActive = FALSE
    /\ now = 0
    /\ nextId = FirstFreshId + 1
    /\ stored \in StoredBefore
    /\ effects = <<[run |-> "load"]>> \o SaveQueue(goals, sessions, logs)

\* App.tsx:37-46: the load effect; its three state updates wait for the render
LoadData ==
    /\ effects # <<>> /\ Head(effects).run = "load"
    /\ LET gs == LoadGoals(stored, now)
           ss == LoadSessions(gs.store, now)
       IN  /\ stored' = ss.store
           /\ effects' = Tail(effects)
                 \o <<[run |-> "render", goals |-> gs.value,
                       sessions |-> ss.value, logs |-> LoadLogs(stored)]>>
    /\ UNCHANGED <<storeVars, timerVars, now, nextId>>

\* App.tsx:58-60 with storage.ts:91-93, 106-108, 115-117: one save effect
SaveData ==
    /\ effects # <<>> /\ Head(effects).run \in {"saveGoals", "saveSessions", "saveLogs"}
    /\ LET key == CASE Head(effects).run = "saveGoals" -> "goals"
                    [] Head(effects).run = "saveSessions" -> "sessions"
                    [] OTHER -> "logs"
       IN  stored' = [stored EXCEPT ![key] = <<Head(effects).value>>]
    /\ effects' = Tail(effects)
    /\ UNCHANGED <<storeVars, timerVars, now, nextId>>

\* The render of the loaded collections; all three are new arrays, so every
\* save effect is queued again
Render ==
    /\ effects # <<>> /\ Head(effects).run = "render"
    /\ goals' = Head(effects).goals
    /\ sessions' = Head(effects).sessions
    /\ logs' = Head(effects).logs
    /\ effects' = Tail(effects) \o SaveQueue(goals', sessions', logs')
    /\ UNCHANGED <<stored, timerVars, now, nextId>>

\* A handler once the mount is over, and the save effect its render queues
Mutation ==
    /\ effects = <<>>
    /\ Step
    /\ stored' = stored
    /\ \/ /\ \E ti \in GoalTitles, c \in GoalColors : handleAddGoal(ti, c)
          /\ effects' = <<[run |-> "saveGoals", value |-> goals']>>
       \/ /\ \E log \in StoreLogInputs : handleSaveLog(log)
          /\ effects' = <<[run |-> "saveLogs", value |-> logs']>>

MountNext == LoadData \/ SaveData \/ Render \/ Mutation

MountSpec == MountInit /\ [][MountNext]_vars

----------------------------------------------------------------------------
(* The timer screen: focus started from the goal list, the countdown run,
   paused, adjusted, stopped or left *)

TimerStep == now < MaxTimerNow /\ now' = now + 1

TimerNext ==
    /\ TimerStep
    /\ \/ \E target \in FocusTargets(goals) : handleStartFocus(target[1], target[2])
       \/ onExit
       \/ toggleTimer
       \/ \E k \in 1..timeLeft : Tick(k)
       \/ CompletionEffect
       \/ handleStopEarly
       \/ resetTimer
       \/ adjustTime(5)
       \/ adjustTime(-5)
    /\ SaveEffects

TimerSpec == Init /\ [][TimerNext]_vars

----------------------------------------------------------------------------
(* The timer together with the goal tree: App renders the Timer alone while
   activeTab is 'timer' (App.tsx:327-337) and the goal tree only on the goals
   tab (App.tsx:347) *)

\* The forms the task editor submits here: a new target or the other type
EditForms == { f \in TaskForms : f.type = "time" => f.targetDurationMinutes = 30 }

\* The goal tree's handlers from any tab
GoalTreeNextAnyTab ==
    \/ \E g \in GoalIds(goals) : handleDeleteGoal(g)
    \/ \E g \in GoalIds(goals), t \in TaskIds(goals) : handleDeleteTask(g, t)
    \/ \E g \in GoalIds(goals), t \in TaskIds(goals), f \in EditForms :
          handleUpdateTask(g, t, f)
    \/ \E r \in SubtaskRefs(goals) : handleDeleteSubtask(r[1], r[2], r[3])
    \/ \E r \in SubtaskRefs(goals) : handleToggleSubtask(r[1], r[2], r[3])

\* App.tsx:347-362: the goal tree's create, edit and delete handlers are
\* reachable on the goals tab only
GoalTreeNext ==
    /\ activeTab = "goals"
    /\ \/ \E g \in GoalIds(goals) : handleDeleteGoal(g)
       \/ \E g \in GoalIds(goals), t \in TaskIds(goals) : handleDeleteTask(g, t)
       \/ \E g \in GoalIds(goals), t \in TaskIds(goals), f \in EditForms :
             handleUpdateTask(g, t, f)
       \/ \E r \in SubtaskRefs(goals) : handleDeleteSubtask(r[1], r[2], r[3])
       \/ \E r \in SubtaskRefs(goals) : handleToggleSubtask(r[1], r[2], r[3])

AppStep == now < MaxAppNow /\ now' = now + 1

AppNext ==
    /\ AppStep
    /\ \/ \E target \in FocusTargets(goals) : handleStartFocus(target[1], target[2])
       \/ onExit
       \/ toggleTimer
       \/ \E k \in 1..timeLeft : Tick(k)
       \/ CompletionEffect
       \/ handleStopEarly
       \/ GoalTreeNext
    /\ SaveEffects

AppSpec == Init /\ [][AppNext]_vars

----------------------------------------------------------------------------
(* The Timer component on its own: mounted with the props its type admits
   (part_001:5-11, taskId: string | null), a linked task or none *)

TimerPropsInputs(gs) == FocusTargets(gs) \cup {<<Null, Null>>}

TimerUnitInit ==
    /\ goals \in loadGoals
    /\ sessions = <<>>
    /\ logs = <<>>
    /\ activeTab = "timer"
    /\ \E props \in TimerPropsInputs(goals) :
          timerTaskId = props[1] /\ timerSubtaskId = props[2]
    /\ timeLeft = DefaultSeconds
    /\ initialTime = DefaultSeconds
    /\ isActive = FALSE
    /\ now = 0
    /\ nextId = FirstFreshId
    /\ effects = <<>>
    /\ stored = Saved(goals, sessions, logs)

TimerUnitNext ==
    /\ TimerStep
    /\ \/ toggleTimer
       \/ \E k \in 1..timeLeft : Tick(k)
       \/ CompletionEffect
       \/ handleStopEarly
       \/ resetTimer
       \/ adjustTime(5)
       \/ adjustTime(-5)
    /\ SaveEffects

TimerUnitSpec == TimerUnitInit /\ [][TimerUnitNext]_vars

----------------------------------------------------------------------------
(* GoalTree.getGoalProgress, in exact rational arithmetic *)

\* Math.min(1, n / d) as <<numerator, denominator>> with a positive
\* denominator.  A zero divisor gives what JavaScript gives: n / 0 is Infinity
\* (or -Infinity) and the minimum with 1 is 1 (or -Infinity, written <<-1, 0>>);
\* 0 / 0 is NaN, written <<0, 0>>.
MinOne(n, d) ==
    IF d > 0 THEN IF n >= d THEN <<1, 1>> ELSE <<n, d>>
    ELSE IF d < 0 THEN IF 0 - n >= 0 - d THEN <<1, 1>> ELSE <<0 - n, 0 - d>>
    ELSE IF n > 0 THEN <<1, 1>>
    ELSE IF n = 0 THEN <<0, 0>>
    ELSE <<0 - 1, 0>>

\* part_001:656-669: the ratio of one task as <<numerator, denominator>>
TaskRatio(t) ==
    IF t.type = "count"
    THEN IF Len(t.subtasks) = 0
         THEN <<0, 1>>
         ELSE <<Cardinality({ k \in 1..Len(t.subtasks) : t.subtasks[k].isCompleted }),
                Len(t.subtasks)>>
    ELSE LET target == OrElse(t, "targetDurationMinutes", 60)
             current == OrElse(t, "totalTimeSpent", 0)
         IN  MinOne(current, target)

\* part_001:654-670: totalProgress, the sum of the ratios of tasks[1..n]
RECURSIVE TotalProgress(_, _)
TotalProgress(tasks, n) ==
    IF n = 0 THEN <<0, 1>>
    ELSE LET rest == TotalProgress(tasks, n - 1)
             r == TaskRatio(tasks[n])
         IN  <<rest[1] * r[2] + r[1] * rest[2], rest[2] * r[2]>>

\* part_001:652-672
getGoalProgress(goal) ==
    IF Len(goal.tasks) = 0 THEN 0
    ELSE LET total == TotalProgress(goal.tasks, Len(goal.tasks))
         IN  Round(total[1] * 100, total[2] * Len(goal.tasks))

----------------------------------------------------------------------------
(* StatisticsDashboard (part_000:150-270): the data of one range, in exact
   rational arithmetic.  The interval [start, end] is what date-fns resolves
   the range and the reference date to. *)

\* date-fns isWithinInterval: both ends included
isWithinInterval(date, interval) == interval[1] <= date /\ date <= interval[2]

\* array.reduce((acc, s) => acc + s.durationMinutes, 0)
RECURSIVE SumDuration(_)
SumDuration(ss) ==
    IF ss = <<>> THEN 0
    ELSE SumDuration(SubSeq(ss, 1, Len(ss) - 1)) + ss[Len(ss)].durationMinutes

\* part_000:168
rangeSessions(ss, interval) ==
    SelectSeq(ss, LAMBDA s : isWithinInterval(s.startTime, interval))

\* part_000:171
totalTime(ss, interval) == SumDuration(rangeSessions(ss, interval))

\* Mutant of GoalMinutes: every session of the range counts for every goal.
GoalMinutesOfAll(g, ss, interval) == totalTime(ss, interval)

\* part_000:175-176: the minutes of goal g in the range
GoalMinutes(g, ss, interval) ==
    SumDuration(SelectSeq(rangeSessions(ss, interval), LAMBDA s : s.goalId = g.id))

\* array.sort((a, b) => b.value - a.value) puts d, the next element, behind
\* the elements of the sorted part that are not smaller
InsertDescending(sorted, d) ==
    LET k == Cardinality({ i \in 1..Len(sorted) : sorted[i].value >= d.value })
    IN  SubSeq(sorted, 1, k) \o <<d>> \o SubSeq(sorted, k + 1, Len(sorted))

RECURSIVE SortDescending(_)
SortDescending(arr) ==
    IF arr = <<>> THEN <<>>
    ELSE InsertDescending(SortDescending(SubSeq(arr, 1, Len(arr) - 1)), arr[Len(arr)])

\* part_000:174-178
goalTimeComparison(gs, ss, interval) ==
    SortDescending(
        SelectSeq(Map(gs, LAMBDA g : [name |-> g.title,
                                      value |-> GoalMinutes(g, ss, interval)]),
                  LAMBDA d : d.value > 0))

\* The sum of two ratios
AddRatio(a, b) == <<a[1] * b[2] + b[1] * a[2], a[2] * b[2]>>

\* The sum of a sequence of ratios, from 0
RECURSIVE SumRatio(_)
SumRatio(rs) ==
    IF rs = <<>> THEN <<0, 1>>
    ELSE AddRatio(SumRatio(SubSeq(rs, 1, Len(rs) - 1)), rs[Len(rs)])

\* Math.round((val / count) * 100)
Percent(val, count) == Round(val[1] * 100, val[2] * count)

\* Mutant of AtLeastOne: the length itself, without the floor.
AtLeastOneUnfloored(n) == n

\* Math.max(n, 1)
AtLeastOne(n) == IF n > 1 THEN n ELSE 1

\* part_000:229: the minutes of the sessions of ss for task t
TaskMinutes(t, ss) == SumDuration(SelectSeq(ss, LAMBDA s : s.taskId = t.id))

\* part_000:240-241: the completed subtasks of t; with an interval, those
\* whose completedAt is set and lies in it
CompletedSubtasks(t) ==
    { k \in 1..Len(t.subtasks) : t.subtasks[k].isCompleted }

\* Mutant of CompletedInPeriod: every completed subtask, whenever completed.
CompletedInPeriodEver(t, interval) == CompletedSubtasks(t)

CompletedInPeriod(t, interval) ==
    { k \in CompletedSubtasks(t) :
        /\ Has(t.subtasks[k], "completedAt")
        /\ t.subtasks[k].completedAt # 0
        /\ isWithinInterval(t.subtasks[k].completedAt, interval) }

\* part_000:226-248: what task t adds to incrementVal
IncrementRatio(t, ss, interval) ==
    IF t.type = "time"
    THEN MinOne(TaskMinutes(t, rangeSessions(ss, interval)),
                OrElse(t, "targetDurationMinutes", 60))
    ELSE <<Cardinality(CompletedInPeriod(t, interval)), AtLeastOne(Len(t.subtasks))>>

\* Mutant of TotalRatio: the total of a time task is read from the task.
TotalRatioCached(t, ss) ==
    IF t.type = "time"
    THEN MinOne(OrElse(t, "totalTimeSpent", 0), OrElse(t, "targetDurationMinutes", 60))
    ELSE <<Cardinality(CompletedSubtasks(t)), AtLeastOne(Len(t.subtasks))>>

\* part_000:226-248: what task t adds to totalVal
TotalRatio(t, ss) ==
    IF t.type = "time"
    THEN MinOne(TaskMinutes(t, ss), OrElse(t, "targetDurationMinutes", 60))
    ELSE <<Cardinality(CompletedSubtasks(t)), AtLeastOne(Len(t.subtasks))>>

\* part_000:220-252: the increment and the total of goal g, in percent
GoalIncrement(g, ss, interval) ==
    LET tasksCount == AtLeastOne(Len(g.tasks))
        incrementVal == SumRatio(Map(g.tasks, LAMBDA t : IncrementRatio(t, ss, interval)))
        totalVal == SumRatio(Map(g.tasks, LAMBDA t : TotalRatio(t, ss)))
    IN  [title |-> g.title,
         increment |-> Percent(incrementVal, tasksCount),
         currentTotal |-> Percent(totalVal, tasksCount)]

\* Mutant of goalIncrements: every goal has an entry.
goalIncrementsUnfiltered(gs, ss, interval) ==
    Map(gs, LAMBDA g : GoalIncrement(g, ss, interval))

\* part_000:219-259: the week / month view
goalIncrements(gs, ss, interval) ==
    SelectSeq(Map(gs, LAMBDA g : GoalIncrement(g, ss, interval)),
              LAMBDA e : e.increment > 0 \/ e.currentTotal > 0)

\* Mutant of TaskDone: a count task is judged by its own isCompleted flag.
TaskDoneByFlag(t) == t.isCompleted

\* part_000:189-195: the test of g.tasks.every in the year view
TaskDone(t) ==
    IF t.type = "count"
    THEN \A k \in 1..Len(t.subtasks) : t.subtasks[k].isCompleted
    ELSE t.isCompleted

\* part_000:189
allTasksCompleted(g) ==
    Len(g.tasks) > 0 /\ \A j \in 1..Len(g.tasks) : TaskDone(g.tasks[j])

\* part_000:188-196
completedGoalsCount(gs) ==
    Cardinality({ i \in 1..Len(gs) : allTasksCompleted(gs[i]) })

\* part_000:203-207: what task t adds to p in the year view
YearRatio(t) ==
    IF t.type = "count" /\ Len(t.subtasks) > 0
    THEN <<Cardinality(CompletedSubtasks(t)), Len(t.subtasks)>>
    ELSE IF t.isCompleted THEN <<1, 1>> ELSE <<0, 1>>

\* part_000:199-212: the entry of a goal that is not fully completed
YearProgress(g) ==
    [title |-> g.title,
     percent |-> IF Len(g.tasks) = 0 THEN 0
                 ELSE Percent(SumRatio(Map(g.tasks, YearRatio)), Len(g.tasks))]

\* part_000:188-213
uncompletedGoalsProgress(gs) ==
    Map(SelectSeq(gs, LAMBDA g : ~allTasksCompleted(g)), YearProgress)

----------------------------------------------------------------------------
(* CalendarView (CalendarView.tsx:64-115).  A day is named by the instant of
   its local midnight. *)

DayMs == 24 * 60 * 60 * 1000

\* The days the calendar is asked about: the day most sessions of the model
\* start in, and the day before it.
Days == {-2000000 - DayMs, -2000000}

\* date-fns isSameDay(new Date(instant), day)
isSameDay(instant, day) == day <= instant /\ instant < day + DayMs

\* CalendarView.tsx:73
daySessions(ss, day) == SelectSeq(ss, LAMBDA s : isSameDay(s.startTime, day))

\* CalendarView.tsx:65-69
getTotalTimeForDay(ss, day) == SumDuration(daySessions(ss, day))

\* CalendarView.tsx:78-79: goals.find(g => g.id === s.goalId), then its title
\* or 'Unknown'
GoalName(gs, s) ==
    LET i == FindIndex(gs, LAMBDA g : g.id = s.goalId)
    IN  IF i = 0 THEN "Unknown" ELSE gs[i].title

\* CalendarView.tsx:76-81: the minutes of the day under each goal name
distribution(gs, ss, day) ==
    LET ds == daySessions(ss, day)
    IN  [name \in { GoalName(gs, ds[k]) : k \in 1..Len(ds) } |->
            SumDuration(SelectSeq(ds, LAMBDA s : GoalName(gs, s) = name))]

\* Mutant of getIntensityStyle: no floor under the ratio.
getIntensityStyleUnfloored(minutes) ==
    IF minutes = 0 THEN <<>>
    ELSE [backgroundColor |->
            <<255, 204, 51, IF minutes >= 720 THEN <<1, 1>> ELSE <<minutes, 720>>>>]

\* CalendarView.tsx:104-115: the style of a day cell, {} or the colour
\* rgba(255, 204, 51, opacity) with the opacity as <<numerator, denominator>>
getIntensityStyle(minutes) ==
    IF minutes = 0 THEN <<>>
    ELSE LET rawRatio == <<minutes, 720>>
             floored == IF rawRatio[1] * 10 > rawRatio[2] THEN rawRatio ELSE <<1, 10>>
             opacity == IF floored[1] < floored[2] THEN floored ELSE <<1, 1>>
         IN  [backgroundColor |-> <<255, 204, 51, opacity>>]

\* The intensity a cell shows: the opacity of its colour, 0 without a colour
calendarIntensity(minutes) ==
    LET style == getIntensityStyle(minutes)
    IN  IF Has(style, "backgroundColor") THEN style.backgroundColor[4] ELSE <<0, 1>>

----------------------------------------------------------------------------
(* Lookups used by the properties *)

\* The task taskId of goal goalId (when Resolves)
TaskIn(gs, goalId, taskId) ==
    CHOOSE t \in TasksOf(gs) :
        \E i \in 1..Len(gs) : /\ gs[i].id = goalId
                              /\ \E j \in 1..Len(gs[i].tasks) : gs[i].tasks[j] = t /\ t.id = taskId

TaskById(gs, id) == CHOOSE t \in TasksOf(gs) : t.id = id
SubtaskById(gs, id) == CHOOSE s \in SubtasksOf(gs) : s.id = id

\* a.f and b.f are the same value or both undefined
SameField(a, b, f) == (Has(a, f) <=> Has(b, f)) /\ (Has(a, f) => a[f] = b[f])

\* s is a prefix of t
IsPrefix(s, t) == Len(s) <= Len(t) /\ SubSeq(t, 1, Len(s)) = s

\* The session refers to the task t of goal g
RefersTo(session, g, t) == session.goalId = g.id /\ session.taskId = t.id

----------------------------------------------------------------------------
(* Session rollup *)

\* What C1 asks of the step that records `session`
C1_Post(session) ==
    LET t == TaskIn(goals, session.goalId, session.taskId)
        t2 == TaskIn(goals', session.goalId, session.taskId)
    IN  ( /\ Resolves(goals, session.goalId, session.taskId)
          /\ t.type = "time"
          /\ Has(t, "targetDurationMinutes")
          /\ t.targetDurationMinutes # 0 )
        => /\ Resolves(goals', session.goalId, session.taskId)
           /\ Has(t2, "totalTimeSpent")
           /\ t2.totalTimeSpent = OrElse(t, "totalTimeSpent", 0) + session.durationMinutes
           /\ t2.isCompleted = (t2.totalTimeSpent >= t.targetDurationMinutes)

\* The scenario of C1: a goal whose only task is a time task with target 60,
\* and a ledger of two sessions of 20 and 45 minutes for that task.
C1_Scenario ==
    /\ Len(goals) = 1
    /\ Len(goals[1].tasks) = 1
    /\ goals[1].tasks[1].type = "time"
    /\ Has(goals[1].tasks[1], "targetDurationMinutes")
    /\ goals[1].tasks[1].targetDurationMinutes = 60
    /\ Len(sessions) = 2
    /\ sessions[1].durationMinutes = 20
    /\ sessions[2].durationMinutes = 45
    /\ \A i \in 1..2 : RefersTo(sessions[i], goals[1], goals[1].tasks[1])

\* C1: recording a session for an existing time task with a target adds
\* exactly session.durationMinutes to the task's totalTimeSpent and sets
\* isCompleted to (new totalTimeSpent >= targetDurationMinutes); sessions of 20
\* and 45 minutes against a 60-minute target leave totalTimeSpent = 65,
\* isCompleted = TRUE and a goal progress of 100.
C1_SessionRollup ==
    /\ [](C1_Scenario =>
            /\ OrElse(goals[1].tasks[1], "totalTimeSpent", 0) = 65
            /\ goals[1].tasks[1].isCompleted
            /\ getGoalProgress(goals[1]) = 100)
    /\ [][sessions' # sessions => \A session \in SessionInputs :
            handleSessionComplete(session) => C1_Post(session)]_vars

\* The scenario of C1 has been played.
C1_Witness ==
    /\ C1_Scenario
    /\ OrElse(goals[1].tasks[1], "totalTimeSpent", 0) = 65

\* What C2 asks of the step that records `session` at instant now'
C2_Post(session) ==
    LET t == TaskIn(goals, session.goalId, session.taskId)
        t2 == TaskIn(goals', session.goalId, session.taskId)
    IN  (Resolves(goals, session.goalId, session.taskId) /\ t.type = "time")
        => IF ~t.isCompleted /\ t2.isCompleted
           THEN Has(t2, "completedAt") /\ t2.completedAt = now'
           ELSE SameField(t, t2, "completedAt")

\* C2: the rollup that takes a time task's isCompleted from FALSE to TRUE sets
\* completedAt to the instant of the recording; every other rollup of a time
\* task leaves completedAt as it was.
C2_CompletedAtOnTransition ==
    [][sessions' # sessions => \A session \in SessionInputs :
            handleSessionComplete(session) => C2_Post(session)]_vars

\* A time task completed at an earlier instant has had a later session
\* recorded and keeps its completedAt.
C2_Witness ==
    \E t \in TasksOf(goals) :
        /\ t.type = "time" /\ t.isCompleted
        /\ Has(t, "completedAt") /\ t.completedAt < now
        /\ Len(sessions) >= 2
        /\ sessions[Len(sessions)].taskId = t.id
        /\ sessions[Len(sessions)].goalId = t.parentId
        /\ sessions[Len(sessions)].endTime = now

\* C3: a session whose goalId/taskId do not resolve to a task of the store
\* leaves the goals unchanged and is appended to the ledger.
C3_DanglingRollupNoOp ==
    [][sessions' # sessions => \A session \in SessionInputs :
            (handleSessionComplete(session)
             /\ ~Resolves(goals, session.goalId, session.taskId))
            => /\ goals' = goals
               /\ sessions' = Append(sessions, session)]_vars

\* The only event so far recorded a session for a task of the store under a
\* goal that does not hold it.
C3_Witness ==
    /\ now = 1
    /\ Len(sessions) = 1
    /\ sessions[1].taskId \in TaskIds(goals)
    /\ ~Resolves(goals, sessions[1].goalId, sessions[1].taskId)

----------------------------------------------------------------------------
(* Subtasks *)

\* The subtask sub is the one the session names, under the task it names
Addressed(gs, goalId, taskId, subtaskId, sub) ==
    /\ Resolves(gs, goalId, taskId)
    /\ sub.id = subtaskId
    /\ \E k \in 1..Len(TaskIn(gs, goalId, taskId).subtasks) :
          TaskIn(gs, goalId, taskId).subtasks[k] = sub

\* What C4 asks of the step that records `session`: every subtask is still
\* there and is unchanged, but for the minutes of the subtask named
C4_Post(session) ==
    /\ (Has(session, "subtaskId") /\ Resolves(goals, session.goalId, session.taskId))
       => OrElse(TaskIn(goals', session.goalId, session.taskId), "totalTimeSpent", 0)
          = OrElse(TaskIn(goals, session.goalId, session.taskId), "totalTimeSpent", 0)
            + session.durationMinutes
    /\ SubtaskIds(goals') = SubtaskIds(goals)
    /\ \A sub \in SubtasksOf(goals) :
          LET minutes ==
                IF /\ Has(session, "subtaskId")
                   /\ Addressed(goals, session.goalId, session.taskId, session.subtaskId, sub)
                THEN session.durationMinutes
                ELSE 0
          IN  SubtaskById(goals', sub.id) = [sub EXCEPT !.totalTimeSpent = @ + minutes]

\* C4: a session with a subtaskId adds its minutes to exactly that subtask,
\* no rollup changes a subtask's isCompleted or completedAt, and no step of
\* the store changes the isCompleted of a count task.
C4_SubtaskRollupFrame ==
    /\ [][sessions' # sessions => \A session \in SessionInputs :
            handleSessionComplete(session) => C4_Post(session)]_vars
    /\ [][\A t \in TasksOf(goals) :
            (t.type = "count" /\ t.id \in TaskIds(goals'))
            => TaskById(goals', t.id).isCompleted = t.isCompleted]_vars

\* A completed subtask received the 45 minutes of a session, its siblings none.
C4_Witness ==
    \E t \in TasksOf(goals) :
        /\ t.type = "count" /\ ~t.isCompleted /\ Len(t.subtasks) >= 2
        /\ \E k \in 1..Len(t.subtasks) :
              /\ t.subtasks[k].isCompleted
              /\ t.subtasks[k].totalTimeSpent = 45
              /\ \A m \in 1..Len(t.subtasks) : m # k => t.subtasks[m].totalTimeSpent = 0
        /\ Len(sessions) = 1
        /\ Has(sessions[1], "subtaskId")

\* What C5 asks of a toggle of subtaskId under taskId under goalId
C5_Post(goalId, taskId, subtaskId) ==
    /\ SubtaskIds(goals') = SubtaskIds(goals)
    /\ \A sub \in SubtasksOf(goals) :
          LET sub2 == SubtaskById(goals', sub.id)
          IN  IF Addressed(goals, goalId, taskId, subtaskId, sub)
              THEN /\ sub2.isCompleted = ~sub.isCompleted
                   /\ sub2.isCompleted => (Has(sub2, "completedAt") /\ sub2.completedAt = now')
                   /\ ~sub2.isCompleted => ~Has(sub2, "completedAt")
                   /\ \A f \in {"id", "parentId", "title", "totalTimeSpent"} : sub2[f] = sub[f]
              ELSE sub2 = sub

\* C5: a toggle flips isCompleted of the addressed subtask only, stamping
\* completedAt with the instant when it becomes completed and clearing it
\* when it becomes uncompleted (so a second toggle restores isCompleted =
\* FALSE without completedAt); every subtask has completedAt iff isCompleted.
C5_ToggleSubtask ==
    /\ [](\A sub \in SubtasksOf(goals) : Has(sub, "completedAt") <=> sub.isCompleted)
    /\ [][goals' # goals => \A r \in SubtaskRefs(goals) :
            handleToggleSubtask(r[1], r[2], r[3]) => C5_Post(r[1], r[2], r[3])]_vars

\* A subtask was toggled to completed at the latest instant.
C5_Witness ==
    /\ now >= 1
    /\ \E sub \in SubtasksOf(goals) :
          sub.isCompleted /\ Has(sub, "completedAt") /\ sub.completedAt = now

----------------------------------------------------------------------------
(* The ledger *)

\* C6: the ledger is append-only: every step leaves the ledger it found as a
\* prefix of the new one, also when a goal, task or subtask that sessions
\* refer to is deleted.
C6_LedgerAppendOnly == [][IsPrefix(sessions, sessions')]_vars

\* The ledger holds a session whose goal and task resolved when it was
\* recorded and have been deleted since.
C6_Witness ==
    /\ now = 2
    /\ Len(sessions) = 1
    /\ sessions[1].endTime = 1
    /\ sessions[1].taskId # NoSuchId
    /\ sessions[1].goalId # NoSuchId
    /\ sessions[1].taskId \notin TaskIds(goals)

----------------------------------------------------------------------------
(* Structure of the store *)

\* Number of goals, tasks and subtasks of the store
EntityCount(gs) ==
    Len(gs)
    + SumOver(1..Len(gs), [i \in 1..Len(gs) |-> Len(gs[i].tasks)])
    + SumOver(1..Len(gs), [i \in 1..Len(gs) |->
          SumOver(1..Len(gs[i].tasks),
                  [j \in 1..Len(gs[i].tasks) |-> Len(gs[i].tasks[j].subtasks)])])

\* All ids are pairwise distinct and every parentId names the container
WellFormed(gs) ==
    /\ Cardinality(GoalIds(gs) \cup TaskIds(gs) \cup SubtaskIds(gs)) = EntityCount(gs)
    /\ \A i \in 1..Len(gs) : \A j \in 1..Len(gs[i].tasks) :
          /\ gs[i].tasks[j].parentId = gs[i].id
          /\ \A k \in 1..Len(gs[i].tasks[j].subtasks) :
                gs[i].tasks[j].subtasks[k].parentId = gs[i].tasks[j].id

\* C7: in every state reached from the default data, all goal, task and
\* subtask ids are pairwise distinct and every parentId is the id of the
\* containing goal or task; a task or subtask that a step creates starts with
\* totalTimeSpent = 0 and isCompleted = FALSE, a task with no subtasks.
C7_StructuralInvariants ==
    /\ []WellFormed(goals)
    /\ [][/\ \A t \in TasksOf(goals') :
                t.id \notin TaskIds(goals)
                => /\ Has(t, "totalTimeSpent") /\ t.totalTimeSpent = 0
                   /\ t.isCompleted = FALSE
                   /\ t.subtasks = <<>>
          /\ \A sub \in SubtasksOf(goals') :
                sub.id \notin SubtaskIds(goals)
                => sub.totalTimeSpent = 0 /\ sub.isCompleted = FALSE]_vars

\* A task created by the store holds a subtask created by the store.
C7_Witness ==
    \E t \in TasksOf(goals) :
        /\ t.id >= FirstFreshId
        /\ Len(t.subtasks) = 1
        /\ t.subtasks[1].id >= FirstFreshId
        /\ t.subtasks[1].id # t.id

----------------------------------------------------------------------------
(* C8 *)

UniqueDates(ls) ==
    \A i, j \in 1..Len(ls) : i # j => ls[i].date # ls[j].date

C8_Post(log) ==
    LET hits == { i \in 1..Len(logs) : logs[i].date = log.date }
    IN  IF hits # {}
        THEN /\ Len(logs') = Len(logs)
             /\ \A i \in 1..Len(logs) :
                   logs'[i] = IF i \in hits THEN log ELSE logs[i]
        ELSE logs' = Append(logs, log)

\* C8: starting from logs with unique dates, the logs hold at most one entry
\* per date in every state; handleSaveLog for a date already present puts
\* exactly the given log at that entry's position, keeping no field of the
\* old entry, and leaves every other entry unchanged; for an absent date it
\* appends exactly the given log.
C8_UpsertLog ==
    /\ []UniqueDates(logs)
    /\ [][\A log \in LogInputs : handleSaveLog(log) => C8_Post(log)]_vars

\* One upsert on the stored two-entry logs has replaced the first entry, which
\* had a mood, with a log that has none; the second entry is as stored.
C8_Witness ==
    /\ now = 1
    /\ logs = << [date |-> "2024-01-01", journal |-> "note"],
                 [date |-> "2024-01-02", mood |-> "bad"] >>

----------------------------------------------------------------------------
(* C9, C10 *)

Last(seq) == seq[Len(seq)]

\* C9: every session in the ledger of the timer screen has durationMinutes
\* >= 1, and a step that hands a session over hands one whose durationMinutes
\* is the rounding of the run's elapsed seconds (initialTime - timeLeft) and
\* whose endTime - startTime is that many seconds, in milliseconds.
C9_SessionAtLeastOneMinute ==
    /\ [](\A i \in 1..Len(sessions) : sessions[i].durationMinutes >= 1)
    /\ [][Len(sessions') > Len(sessions)
          => LET elapsed == initialTime - timeLeft
             IN  /\ Len(sessions') = Len(sessions) + 1
                 /\ Last(sessions').durationMinutes = Round(elapsed, 60)
                 /\ Last(sessions').durationMinutes >= 1
                 /\ Last(sessions').endTime - Last(sessions').startTime
                    = elapsed * 1000]_vars

\* A countdown shortened to 20 minutes has run to its end, and an early stop
\* after 89 seconds of the next run has added a one-minute session.
C9_Witness ==
    /\ Len(sessions) = 2
    /\ sessions[1].durationMinutes = 20
    /\ sessions[1].endTime - sessions[1].startTime = 1200000
    /\ sessions[2].durationMinutes = 1
    /\ sessions[2].endTime - sessions[2].startTime = 89000

\* C10: a step of handleStopEarly with elapsed = initialTime - timeLeft < 60
\* leaves sessions and goals unchanged and the timer inactive with timeLeft
\* equal to the unchanged initialTime; with elapsed >= 60 it appends exactly
\* one session, whose durationMinutes is elapsed / 60 rounded.
C10_EarlyStop ==
    [][handleStopEarly
       => LET elapsed == initialTime - timeLeft
          IN  IF elapsed < 60
              THEN /\ sessions' = sessions
                   /\ goals' = goals
                   /\ isActive' = FALSE
                   /\ initialTime' = initialTime
                   /\ timeLeft' = initialTime
              ELSE /\ Len(sessions') = Len(sessions) + 1
                   /\ SubSeq(sessions', 1, Len(sessions)) = sessions
                   /\ Last(sessions').durationMinutes = Round(elapsed, 60)]_vars

\* Four events in (focus started, countdown started, 89 seconds run, stopped
\* early), the ledger holds the one-minute session of the stop and the timer
\* is back at its configured duration.
C10_Witness ==
    /\ now = 4
    /\ Len(sessions) = 1
    /\ sessions[1].durationMinutes = 1
    /\ sessions[1].endTime - sessions[1].startTime = 89000
    /\ ~isActive
    /\ timeLeft = initialTime
    /\ initialTime = DefaultSeconds

----------------------------------------------------------------------------
(* C11 *)

Finite(ratio) == ratio[2] # 0

\* C12: no ratio of goalProgress or of the week / month view divides by zero.
\* A goal with no tasks has progress 0, a count task with no subtasks adds
\* ratio 0 to goalProgress and to the week / month increment and total, and a
\* time task whose target is missing or zero is divided by the default 60.
C12_ZeroDenominators ==
    \A i \in 1..Len(goals) :
        LET goal == goals[i] IN
        /\ Len(goal.tasks) = 0 => getGoalProgress(goal) = 0
        /\ \A j \in 1..Len(goal.tasks) : \A interval \in Intervals :
               LET t == goal.tasks[j]
                   ratios == {TaskRatio(t), TotalRatio(t, sessions),
                              IncrementRatio(t, sessions, interval)}
               IN  /\ \A ratio \in ratios : Finite(ratio)
                   /\ t.type = "count" /\ Len(t.subtasks) = 0
                      => \A ratio \in ratios : ratio[1] = 0
                   /\ t.type = "time" /\ (~Has(t, "targetDurationMinutes")
                                           \/ t.targetDurationMinutes = 0)
                      => /\ TaskRatio(t) = MinOne(OrElse(t, "totalTimeSpent", 0), 60)
                         /\ TotalRatio(t, sessions) = MinOne(TaskMinutes(t, sessions), 60)

\* A goal holding a time task with target 0 and a count task with
\* no subtasks
C12_Witness ==
    \E i \in 1..Len(goals) : \E j, k \in 1..Len(goals[i].tasks) :
        /\ goals[i].tasks[j].type = "count" /\ Len(goals[i].tasks[j].subtasks) = 0
        /\ goals[i].tasks[k].type = "time"
        /\ goals[i].tasks[k].targetDurationMinutes = 0

\* C13: the progress of every goal of the store is an integer from 0 to 100,
\* and it is 100 for a goal whose tasks are time tasks that have all reached
\* their targets, whatever the overshoot.
C13_ProgressInRange ==
    \A i \in 1..Len(goals) :
        LET goal == goals[i] IN
        /\ getGoalProgress(goal) \in 0..100
        /\ (/\ Len(goal.tasks) > 0
            /\ \A j \in 1..Len(goal.tasks) :
                  /\ goal.tasks[j].type = "time"
                  /\ Has(goal.tasks[j], "targetDurationMinutes")
                  /\ OrElse(goal.tasks[j], "totalTimeSpent", 0)
                        >= goal.tasks[j].targetDurationMinutes)
           => getGoalProgress(goal) = 100

\* The sessions but the k-th
AllBut(ss, k) == SubSeq(ss, 1, k - 1) \o SubSeq(ss, k + 1, Len(ss))

\* The sessions whose goal is no longer in the store
Orphaned(ss) == SelectSeq(ss, LAMBDA s : s.goalId \notin GoalIds(goals))

\* C14: a session of a deleted goal adds nothing to any entry of the minutes
\* per goal or of the week / month increments, whatever the range (the views
\* are those of the sessions without it); on its day its minutes are under
\* "Unknown" in the distribution, which sums to the total of the day.
C14_OrphanedSession ==
    \A k \in 1..Len(sessions) :
        sessions[k].goalId \notin GoalIds(goals)
        => /\ \A interval \in Intervals :
                /\ goalTimeComparison(goals, sessions, interval)
                     = goalTimeComparison(goals, AllBut(sessions, k), interval)
                /\ goalIncrements(goals, sessions, interval)
                     = goalIncrements(goals, AllBut(sessions, k), interval)
           /\ \A day \in Days :
                isSameDay(sessions[k].startTime, day)
                => LET shares == distribution(goals, sessions, day) IN
                   /\ "Unknown" \in DOMAIN shares
                   /\ shares["Unknown"] = getTotalTimeForDay(Orphaned(sessions), day)
                   /\ SumOver(DOMAIN shares, shares) = getTotalTimeForDay(sessions, day)

\* A session was recorded and its goal deleted
C14_Witness ==
    \E k \in 1..Len(sessions), day \in Days :
        /\ sessions[k].goalId \notin GoalIds(goals)
        /\ isSameDay(sessions[k].startTime, day)
        /\ Len(goals) > 0

\* C15: once the task of a session is deleted while its goal stays, the
\* minutes of the session are not in the minutes of that goal, for any range
\* holding the session: the goal has the minutes it has without the session.
C15_DeletedTaskSession ==
    \A k \in 1..Len(sessions) : \A i \in 1..Len(goals) : \A interval \in Intervals :
        /\ goals[i].id = sessions[k].goalId
        /\ sessions[k].taskId \notin TaskIds(goals)
        /\ isWithinInterval(sessions[k].startTime, interval)
        => GoalMinutes(goals[i], sessions, interval)
             = GoalMinutes(goals[i], AllBut(sessions, k), interval)

\* The goals with at least one task whose count tasks have all their subtasks
\* completed and whose time tasks carry the isCompleted flag
FullyCompleted(gs) ==
    { i \in 1..Len(gs) :
        /\ Len(gs[i].tasks) > 0
        /\ \A j \in 1..Len(gs[i].tasks) :
              LET t == gs[i].tasks[j] IN
              /\ t.type = "count"
                 => Cardinality(CompletedSubtasks(t)) = Len(t.subtasks)
              /\ t.type = "time" => t.isCompleted }

\* C16: in the year view completedGoalsCount is the number of goals with a
\* task, all subtasks of every count task completed (whatever the flag of the
\* task) and every time task flagged completed; each other goal has exactly
\* one entry of uncompletedGoalsProgress, in the order of the goals.
C16_CompletedGoalsCount ==
    LET rest == SelectSeq(goals, LAMBDA g : \A i \in FullyCompleted(goals) : goals[i] # g)
        entries == uncompletedGoalsProgress(goals)
    IN  /\ completedGoalsCount(goals) = Cardinality(FullyCompleted(goals))
        /\ Len(entries) = Len(goals) - Cardinality(FullyCompleted(goals))
        /\ Len(entries) = Len(rest)
        /\ \A n \in 1..Len(entries) : entries[n].title = rest[n].title

\* A goal that counts as completed through a count task whose own flag is
\* not set, next to a goal that does not
C16_Witness ==
    /\ \E i \in FullyCompleted(goals) : \E j \in 1..Len(goals[i].tasks) :
          goals[i].tasks[j].type = "count" /\ ~goals[i].tasks[j].isCompleted
    /\ Len(uncompletedGoalsProgress(goals)) > 0

\* C17: in the year view the percent of every goal that is not fully
\* completed is the progress of the goal, getGoalProgress.
C17_YearPercentIsProgress ==
    \A i \in 1..Len(goals) :
        ~allTasksCompleted(goals[i])
        => YearProgress(goals[i]).percent = getGoalProgress(goals[i])

\* The goals with other cached fields in every task: isCompleted negated,
\* totalTimeSpent off by `drift` minutes
Drifted(gs, drift) ==
    Map(gs, LAMBDA g :
        [g EXCEPT !.tasks =
            Map(g.tasks, LAMBDA t :
                [isCompleted |-> ~t.isCompleted,
                 totalTimeSpent |-> OrElse(t, "totalTimeSpent", 0) + drift] @@ t)])

\* The minutes of the sessions of ss that name task t and start in interval
LedgerMinutes(t, ss, interval) ==
    LET hits == { k \in 1..Len(ss) : /\ ss[k].taskId = t.id
                                     /\ interval[1] <= ss[k].startTime
                                     /\ ss[k].startTime <= interval[2] }
    IN  SumOver(hits, [k \in hits |-> ss[k].durationMinutes])

\* An interval holding every instant of the model
Ever == <<-100000000, 100000000>>

\* C18: the week / month goalIncrements are the same for the goals of the
\* store and for goals that differ from them only in the cached totalTimeSpent
\* and isCompleted of the tasks; a time task adds min(1, in-range minutes of
\* its sessions / target) to the increment and min(1, minutes of all its
\* sessions / target) to the total.
C18_IncrementsFromLedger ==
    \A interval \in Intervals :
        /\ goalIncrements(Drifted(goals, 7), sessions, interval)
             = goalIncrements(goals, sessions, interval)
        /\ \A i \in 1..Len(goals) : \A j \in 1..Len(goals[i].tasks) :
              LET t == goals[i].tasks[j] IN
              t.type = "time"
              => /\ IncrementRatio(t, sessions, interval)
                      = MinOne(LedgerMinutes(t, sessions, interval),
                               OrElse(t, "targetDurationMinutes", 60))
                 /\ TotalRatio(t, sessions)
                      = MinOne(LedgerMinutes(t, sessions, Ever),
                               OrElse(t, "targetDurationMinutes", 60))

\* A time task with a session inside one range and outside another, whose
\* goal has an entry in the week / month view
C18_Witness ==
    \E i \in 1..Len(goals) : \E j \in 1..Len(goals[i].tasks) :
    \E inside, outside \in Intervals :
        LET t == goals[i].tasks[j] IN
        /\ t.type = "time"
        /\ OrElse(t, "totalTimeSpent", 0) > 0
        /\ LedgerMinutes(t, sessions, inside) > 0
        /\ LedgerMinutes(t, sessions, outside) = 0
        /\ GoalIncrement(goals[i], sessions, inside).increment > 0
        /\ GoalIncrement(goals[i], sessions, outside).increment = 0
        /\ GoalIncrement(goals[i], sessions, outside).currentTotal > 0

\* C19: in the week / month view a count task adds to the increment the
\* number of its subtasks that are completed with completedAt inside
\* [start, end], and to the total the number of its completed subtasks.  A
\* goal with one count task of three subtasks, one of them completed, has
\* currentTotal 33, and increment 33 if that completedAt is inside the range
\* and 0 otherwise.
C19_CountTaskIncrement ==
    \A i \in 1..Len(goals) : \A interval \in Intervals :
        LET g == goals[i]
            InRange(sub) == /\ sub.isCompleted
                            /\ Has(sub, "completedAt")
                            /\ interval[1] <= sub.completedAt
                            /\ sub.completedAt <= interval[2]
        IN  /\ \A j \in 1..Len(g.tasks) :
                  LET t == g.tasks[j] IN
                  t.type = "count"
                  => /\ IncrementRatio(t, sessions, interval)[1]
                          = Cardinality({ k \in 1..Len(t.subtasks) : InRange(t.subtasks[k]) })
                     /\ TotalRatio(t, sessions)[1]
                          = Cardinality({ k \in 1..Len(t.subtasks) : t.subtasks[k].isCompleted })
            /\ (/\ Len(g.tasks) = 1
                /\ g.tasks[1].type = "count"
                /\ Len(g.tasks[1].subtasks) = 3
                /\ Cardinality(CompletedSubtasks(g.tasks[1])) = 1)
               => LET done == g.tasks[1].subtasks[CHOOSE k \in CompletedSubtasks(g.tasks[1]) : TRUE]
                      entry == GoalIncrement(g, sessions, interval)
                  IN  /\ entry.currentTotal = 33
                      /\ entry.increment = IF InRange(done) THEN 33 ELSE 0
                      /\ \E n \in 1..Len(goalIncrements(goals, sessions, interval)) :
                            goalIncrements(goals, sessions, interval)[n] = entry

\* A goal whose only task is a count task of three subtasks, one of them
\* completed at an instant inside one range and outside another
C19_Witness ==
    \E i \in 1..Len(goals) : \E inside, outside \in Intervals :
        /\ Len(goals[i].tasks) = 1
        /\ goals[i].tasks[1].type = "count"
        /\ Len(goals[i].tasks[1].subtasks) = 3
        /\ Cardinality(CompletedSubtasks(goals[i].tasks[1])) = 1
        /\ GoalIncrement(goals[i], sessions, inside).increment = 33
        /\ GoalIncrement(goals[i], sessions, outside).increment = 0

\* a <= b for ratios with positive denominators
RatioLeq(a, b) == a[1] * b[2] <= b[1] * a[2]

\* C20: the intensity of a day is 0 for 0 minutes, 1/10 for 1 to 72 minutes,
\* minutes / 720 from 72 to 720 minutes and 1 from 720 minutes on, and a
\* minute more never lowers it.
C20_CalendarIntensity ==
    \A day \in Days :
        LET minutes == getTotalTimeForDay(sessions, day)
            x == calendarIntensity(minutes)
        IN  /\ minutes = 0 => x[1] = 0 /\ getIntensityStyle(minutes) = <<>>
            /\ minutes >= 1 /\ minutes <= 72 => x[1] * 10 = x[2]
            /\ minutes >= 72 /\ minutes <= 720 => x[1] * 720 = minutes * x[2]
            /\ minutes >= 720 => x[1] = x[2]
            /\ x[2] > 0
            /\ RatioLeq(x, calendarIntensity(minutes + 1))

\* A day of several sessions with more than 720 minutes in all, shown at
\* full intensity
C20_Witness ==
    \E day \in Days :
        /\ Len(daySessions(sessions, day)) > 1
        /\ getTotalTimeForDay(sessions, day) > 720
        /\ calendarIntensity(getTotalTimeForDay(sessions, day)) = <<1, 1>>

\* C21: no stored task has an empty title, and no stored time task has a
\* target of zero or fewer minutes.
C21_ValidatedTasks ==
    \A i \in 1..Len(goals) : \A j \in 1..Len(goals[i].tasks) :
        LET t == goals[i].tasks[j] IN
        /\ t.title # ""
        /\ t.type = "time" /\ Has(t, "targetDurationMinutes")
           => t.targetDurationMinutes > 0

\* C22: the totalTimeSpent of every task of the store (0 when missing) is the
\* sum of the minutes of the sessions of the ledger that name the task.
C22_RollupMatchesLedger ==
    \A i \in 1..Len(goals) : \A j \in 1..Len(goals[i].tasks) :
        OrElse(goals[i].tasks[j], "totalTimeSpent", 0)
          = LedgerMinutes(goals[i].tasks[j], sessions, Ever)

\* A task edited in the form after a session was recorded for it
C22_Witness ==
    \E i \in 1..Len(goals) : \E j \in 1..Len(goals[i].tasks) :
        /\ goals[i].tasks[j].title \in TaskTitles
        /\ OrElse(goals[i].tasks[j], "totalTimeSpent", 0) > 0
        /\ \E k \in 1..Len(sessions) : sessions[k].taskId = goals[i].tasks[j].id

\* C23: every time task with a positive target is flagged completed exactly
\* when its totalTimeSpent has reached the target.
C23_FlagIsDerived ==
    \A i \in 1..Len(goals) : \A j \in 1..Len(goals[i].tasks) :
        LET t == goals[i].tasks[j] IN
        /\ t.type = "time"
        /\ Has(t, "targetDurationMinutes")
        /\ t.targetDurationMinutes > 0
        => t.isCompleted = (OrElse(t, "totalTimeSpent", 0) >= t.targetDurationMinutes)

\* A goal has measurable activity: a session of the ledger names one of its
\* time tasks, or one of its subtasks is completed
Active(g) ==
    \E j \in 1..Len(g.tasks) :
        \/ /\ g.tasks[j].type = "time"
           /\ \E k \in 1..Len(sessions) : sessions[k].taskId = g.tasks[j].id
        \/ CompletedSubtasks(g.tasks[j]) # {}

\* The entries of the week / month view that carry the title of goal g
EntriesOf(g, interval) ==
    LET entries == goalIncrements(goals, sessions, interval)
    IN  { n \in 1..Len(entries) : entries[n].title = g.title }

\* C24 as stated: for every range the week / month view has one entry for
\* every goal with measurable activity and none for a goal without, and every
\* entry has a positive increment or a positive total.
C24_EntryIffActivity ==
    \A interval \in Intervals :
        /\ \A i \in 1..Len(goals) :
              Cardinality(EntriesOf(goals[i], interval))
                = IF Active(goals[i]) THEN 1 ELSE 0
        /\ \A n \in 1..Len(goalIncrements(goals, sessions, interval)) :
              LET e == goalIncrements(goals, sessions, interval)[n]
              IN  e.increment > 0 \/ e.currentTotal > 0

\* C24, amended: for every range the week / month view has one entry for
\* every goal whose rounded increment or rounded total is positive and none
\* for any other goal; a goal without measurable activity has none, and
\* neither has a goal whose activity rounds to 0 percent.
C24_EntryIffPositivePercent ==
    \A interval \in Intervals : \A i \in 1..Len(goals) :
        LET percents == GoalIncrement(goals[i], sessions, interval) IN
        /\ Cardinality(EntriesOf(goals[i], interval))
             = IF percents.increment > 0 \/ percents.currentTotal > 0 THEN 1 ELSE 0
        /\ ~Active(goals[i]) => EntriesOf(goals[i], interval) = {}

\* A goal with a recorded minute that rounds to 0 percent and has no entry,
\* next to none or more goals with one
C24_Witness ==
    \E i \in 1..Len(goals) : \E interval \in Intervals :
        /\ Active(goals[i])
        /\ \E k \in 1..Len(sessions) :
              sessions[k].goalId = goals[i].id
              /\ isWithinInterval(sessions[k].startTime, interval)
        /\ EntriesOf(goals[i], interval) = {}

\* C25: every entry of the week / month view, for every range, has
\* 0 <= increment <= currentTotal <= 100.
C25_IncrementWithinTotal ==
    \A interval \in Intervals :
        \A n \in 1..Len(goalIncrements(goals, sessions, interval)) :
            LET e == goalIncrements(goals, sessions, interval)[n]
            IN  0 <= e.increment /\ e.increment <= e.currentTotal /\ e.currentTotal <= 100

\* C26: every goal the year view counts as fully completed has progress 100;
\* a goal with progress below 100 is not counted.
C26_CompletedMeansFullProgress ==
    \A i \in 1..Len(goals) :
        /\ allTasksCompleted(goals[i]) => getGoalProgress(goals[i]) = 100
        /\ getGoalProgress(goals[i]) < 100
           => completedGoalsCount(<<goals[i]>>) = 0

\* The seconds of the run as the timer measures them
Elapsed == initialTime - timeLeft

\* C27: the minutes recorded for a run are round(seconds counted down since
\* the run was first started / 60).  Step by step: every tick adds its second
\* to the measure of the run, pausing, resuming and adjusting the time keep
\* the measure, and a run that is recorded is recorded with the measure
\* rounded to minutes.
C27_ElapsedIsCounted ==
    [][/\ \A k \in 1..timeLeft : Tick(k) => Elapsed' = Elapsed + k
       /\ toggleTimer => Elapsed' = Elapsed
       /\ (adjustTime(5) \/ adjustTime(-5)) => Elapsed' = Elapsed
       /\ (CompletionEffect \/ handleStopEarly) /\ Len(sessions') > Len(sessions)
          => Last(sessions').durationMinutes = Round(Elapsed, 60)]_vars

\* The load effect or the render of what it loaded is still to run
Mounting ==
    \E n \in 1..Len(effects) : effects[n].run \in {"load", "render"}

\* C28: during the mount a stored collection is never replaced (it stays
\* what it was before the start until the loaded collections are in memory),
\* and every later write stores the collection that is in memory.
C28_StartupKeepsStored ==
    [][\A key \in {"goals", "sessions", "logs"} :
          /\ Mounting /\ stored[key] # <<>> => stored'[key] = stored[key]
          /\ ~Mounting /\ stored'[key] # stored[key]
             => stored'[key] = Saved(goals', sessions', logs')[key]]_vars

\* Every id the session carries resolves in gs: its
\* task exists, under the goal it names, with the subtask it names
NotDangling(gs, session) ==
    \E i \in 1..Len(gs) :
        /\ gs[i].id = session.goalId
        /\ \E j \in 1..Len(gs[i].tasks) :
              /\ gs[i].tasks[j].id = session.taskId
              /\ Has(session, "subtaskId")
                 => \E k \in 1..Len(gs[i].tasks[j].subtasks) :
                       gs[i].tasks[j].subtasks[k].id = session.subtaskId

\* C29: the session the timer appends names an existing task, the goal that
\* contains it and, if any, an existing subtask of that task; and while the
\* timer tab is shown the goals change only by the recording of a session.
C29_TimerSessionResolves ==
    [][/\ (CompletionEffect \/ handleStopEarly) /\ Len(sessions') > Len(sessions)
          => /\ NotDangling(goals, Last(sessions'))
             /\ NotDangling(goals', Last(sessions'))
       /\ activeTab = "timer" /\ goals' # goals
          => Len(sessions') = Len(sessions) + 1]_vars

\* A session was recorded by the timer after the goal tree had been edited:
\* one of the default goals is gone
C29_Witness ==
    /\ Len(sessions) = 1
    /\ Len(goals) = 1
    /\ NotDangling(goals, sessions[1])

\* The minutes credited to the current subtasks of a task
SubtaskMinutes(t) ==
    SumOver(1..Len(t.subtasks),
            [k \in 1..Len(t.subtasks) |-> OrElse(t.subtasks[k], "totalTimeSpent", 0)])

\* C30: for every task the sum of its current subtasks' totalTimeSpent is at
\* most the task's own totalTimeSpent (a missing total counts as 0).
C30_SubtasksWithinTask ==
    \A t \in TasksOf(goals) : SubtaskMinutes(t) <= OrElse(t, "totalTimeSpent", 0)

\* A task whose subtasks were credited, and which holds more minutes than
\* its current subtasks do
C30_Witness ==
    \E t \in TasksOf(goals) :
        /\ SubtaskMinutes(t) > 0
        /\ SubtaskMinutes(t) < OrElse(t, "totalTimeSpent", 0)
====
